---- MODULE Spec2Model ----
(***************************************************************************)
(* Model of auto_flow: Scheduler.run, Workflow.run, the task variants,     *)
(* SafetySettings.ensure_focus and HotkeyListener, with the hotkey         *)
(* callback and the clock as concurrent environment actions.               *)
(*                                                                         *)
(* Time is counted in ticks of half a second.                              *)
(***************************************************************************)
EXTENDS Integers, Sequences, FiniteSets, TLC

\* ---------------------------------------------------------------- bounds
MaxEntries == 2      \* most add_workflow calls before run()
MaxTime    == 5      \* the clock stops advancing here, in ticks
MaxRuns    == 2      \* most calls of run() on one scheduler

\* The run_at values handed to add_workflow, in ticks: due at once, due
\* within a second, and due after more than a second
RunAts == {0, 1, 3}

\* workflows.py:176, listener.wait(min(remaining, 1.0)): one second, in ticks
OneSecond == 2

\* ------------------------------------------------------------- strings
\* Optional[str]: None, or a string as a sequence of characters.
NoneStr == [some |-> FALSE, s |-> <<>>]
Str(s)  == [some |-> TRUE, s |-> s]

\* bool(x) of an Optional[str]: None and "" are falsy
Truthy(o) == o.some /\ o.s # <<>>

\* `x or ""`
OrEmpty(o) == IF Truthy(o) THEN o.s ELSE <<>>

\* str.lower()
LowerChar(c) ==
    CASE c = "A" -> "a"
      [] c = "B" -> "b"
      [] OTHER   -> c

Lower(s) == [i \in 1..Len(s) |-> LowerChar(s[i])]

\* `sub in s` of Python: sub occurs as a contiguous slice of s
Contains(sub, s) ==
    \E i \in 0..Len(s) :
        /\ i + Len(sub) <= Len(s)
        /\ \A j \in 1..Len(sub) : s[i + j] = sub[j]

\* Values of SafetySettings.require_window_title
RequiredTitles == {NoneStr, Str(<<>>), Str(<<"A", "b">>)}

\* Values of pyautogui.getActiveWindow(): None (no window), or a window
\* object with a title, which may be None or empty
NoWindow == [present |-> FALSE, title |-> NoneStr]
Window(title) == [present |-> TRUE, title |-> title]
Windows ==
    {NoWindow} \cup
    { Window(t) : t \in {NoneStr, Str(<<"b", "a", "B">>), Str(<<"B", "A">>)} }

\* The outcome of SafetySettings.ensure_focus: "ok" or the error it raises.
\* pyautogui_ok: the pyautogui module was imported (is not None).
\* ensure_focus comparing the titles without .lower()
EnsureFocusCaseSensitive(require_window_title, pyautogui_ok, window) ==
    IF ~Truthy(require_window_title) THEN "ok"
    ELSE IF ~pyautogui_ok THEN "AutomationError"
    ELSE IF ~window.present THEN "AutomationError"
    ELSE IF ~Contains(require_window_title.s, OrEmpty(window.title))
         THEN "AutomationError" ELSE "ok"

EnsureFocus(require_window_title, pyautogui_ok, window) ==
    IF ~Truthy(require_window_title) THEN "ok"
    ELSE IF ~pyautogui_ok THEN "AutomationError"
    ELSE IF ~window.present THEN "AutomationError"
    ELSE LET title == Lower(OrEmpty(window.title))
         IN  IF ~Contains(Lower(require_window_title.s), title)
             THEN "AutomationError" ELSE "ok"

\* ------------------------------------------------------------ workflows
\* Task objects: the variant (Task.name), delay_before, and WaitTask.seconds
\* (in ticks).
MkTask(type, delay_before, seconds) ==
    [type |-> type, delay_before |-> delay_before, seconds |-> seconds]

\* The Workflow objects of the configuration, by name.
WorkflowNames == {"A", "B"}

Tasks(name) ==
    IF name = "A"
    THEN << MkTask("wait", 0, 1), MkTask("move", 0, 0), MkTask("click", 0, 0) >>
    ELSE << MkTask("type", 1, 0), MkTask("hotkey", 0, 0) >>

\* Task variants whose run() starts with ensure_focus(ctx.safety)
FocusChecked(type) == type \in {"move", "click", "type", "hotkey"}

\* list.sort(key=lambda wf: wf.run_at): a stable sort, as an insertion sort
\* that puts each entry after the entries with a run_at not later than its own
RECURSIVE InsertSorted(_, _)
InsertSorted(e, s) ==
    IF s = <<>> THEN <<e>>
    ELSE IF s[Len(s)].run_at <= e.run_at THEN Append(s, e)
    ELSE Append(InsertSorted(e, SubSeq(s, 1, Len(s) - 1)), s[Len(s)])

\* A sort that puts an entry before the entries with the same run_at
RECURSIVE InsertSortedUnstable(_, _)
InsertSortedUnstable(e, s) ==
    IF s = <<>> THEN <<e>>
    ELSE IF s[Len(s)].run_at < e.run_at THEN Append(s, e)
    ELSE Append(InsertSortedUnstable(e, SubSeq(s, 1, Len(s) - 1)), s[Len(s)])

RECURSIVE SortUnstable(_)
SortUnstable(s) ==
    IF s = <<>> THEN <<>>
    ELSE InsertSortedUnstable(s[Len(s)], SortUnstable(SubSeq(s, 1, Len(s) - 1)))

\* A sort by run_at that keeps one entry per run_at
RECURSIVE SortDropsTies(_)
SortDropsTies(s) ==
    IF s = <<>> THEN <<>>
    ELSE LET rest == SortDropsTies(SubSeq(s, 1, Len(s) - 1))
         IN  IF \E i \in 1..Len(rest) : rest[i].run_at = s[Len(s)].run_at
             THEN rest
             ELSE InsertSorted(s[Len(s)], rest)

RECURSIVE SortByRunAt(_)
SortByRunAt(s) ==
    IF s = <<>> THEN <<>>
    ELSE InsertSorted(s[Len(s)], SortByRunAt(SubSeq(s, 1, Len(s) - 1)))

\* ---------------------------------------------------------------- state
VARIABLES
    workflows,             \* Scheduler.workflows: entries [id, workflow, run_at]
    hotkey,                \* SafetySettings.hotkey
    require_window_title,  \* SafetySettings.require_window_title
    keyboard_ok,           \* the keyboard module was imported
    pyautogui_ok,          \* the pyautogui module was imported
    now,                   \* datetime.now(), in ticks
    pc,                    \* position of the thread that called Scheduler.run
    idx,                   \* position of `for scheduled in self.workflows`
    tk,                    \* position of `for task in self.tasks`
    timeout,               \* argument of the listener.wait call in progress
    deadline,              \* clock value at which the blocking call returns
    event,                 \* HotkeyListener._event of this run's listener
    registered_hotkey,     \* HotkeyListener._registered_hotkey is set
    hooks,                 \* hotkeys the keyboard library holds for us
    api,                   \* AutomationAPI(): "none", "constructed" or "failed"
    exc,                   \* exception in flight, "none" if none
    outcome,               \* how run() ended: "running", "returned" or the error
    entered,               \* listener.__enter__ has returned in this run
    log,                   \* what Workflow.run and the tasks did, in order
    seen,                  \* window the running task's focus check read
    cancel,                \* when and where the hotkey callback set the event
    runs,                  \* the calls of run() that are over: how each ended
    document,              \* the configuration document given to the loader
    argv,                  \* the command line: --list and the --workflow names
    built,                 \* the Workflow list load_workflows_from_config built
    message                \* the names a SystemExit message mentions

vars == << workflows, hotkey, require_window_title, keyboard_ok, pyautogui_ok,
           now, pc, idx, tk, timeout, deadline, event, registered_hotkey,
           hooks, api, exc, outcome, entered, log, seen, cancel, runs,
           document, argv, built, message >>

config  == << hotkey, require_window_title, keyboard_ok, pyautogui_ok >>
cli     == << document, argv, built, message >>

\* No document and no command line: the scheduler is filled by add_workflow
NoDocument == [has_workflows |-> FALSE, workflows |-> <<>>]
NoArgv     == [list |-> FALSE, workflows |-> <<>>]

\* ------------------------------------------------------- configuration
\* A task of the document: a dict with or without "type", its other keys
\* (fields), and the values the loader looks at
TaskSpec(has_type, type, fields, keys, delay_before, seconds) ==
    [has_type |-> has_type, type |-> type, fields |-> fields, keys |-> keys,
     delay_before |-> delay_before, seconds |-> seconds]

\* str.lower() on the type names of the documents
TypeLower(type) ==
    CASE type = "Click" -> "click"
      [] type = "WAIT"  -> "wait"
      [] OTHER          -> type

\* TASK_REGISTRY's keys
TaskRegistry == {"move", "click", "type", "hotkey", "wait"}

\* The keyword parameters of each factory's __init__: those without a
\* default, and all of them. HotkeyTask takes *keys only.
RequiredParams(type) ==
    CASE type = "move"  -> {"x", "y"}
      [] type = "type"  -> {"text"}
      [] type = "wait"  -> {"seconds"}
      [] OTHER          -> {}

AcceptedParams(type) ==
    CASE type = "move"  -> {"x", "y", "duration"}
      [] type = "click" -> {"button"}
      [] type = "type"  -> {"text", "interval"}
      [] type = "wait"  -> {"seconds"}
      [] OTHER          -> {}

\* A built task: as MkTask, with HotkeyTask.keys
BuiltTask(type, delay_before, seconds, keys) ==
    [type |-> type, delay_before |-> delay_before, seconds |-> seconds,
     keys |-> keys]

NoTask == BuiltTask("none", 0, 0, <<>>)

Built(task) == [err |-> "none", task |-> task]
Failed(err) == [err |-> err, task |-> NoTask]

\* factory(**kwargs): Python refuses a keyword the __init__ does not take
\* and a call that leaves out a parameter without default (TypeError);
\* HotkeyTask.__init__ then gets no positional keys at all (ValueError)
Factory(type, spec, kwargs) ==
    IF ~(kwargs \subseteq AcceptedParams(type)) THEN Failed("TypeError")
    ELSE IF ~(RequiredParams(type) \subseteq kwargs) THEN Failed("TypeError")
    ELSE IF type = "hotkey" THEN Failed("ValueError")
    ELSE Built(BuiltTask(type, 0,
                         IF type = "wait" THEN spec.seconds ELSE 0, <<>>))

\* build_task
BuildTask(spec) ==
    IF ~spec.has_type THEN Failed("ValueError")
    ELSE LET task_type == TypeLower(spec.type)
         IN  IF task_type \notin TaskRegistry THEN Failed("ValueError")
             ELSE LET kwargs == spec.fields
                      r      == Factory(task_type, spec, kwargs)
                      delay  == IF "delay_before" \in spec.fields
                                THEN spec.delay_before ELSE 0
                  IN  IF r.err # "none" THEN r
                      ELSE IF delay # 0
                      THEN Built([r.task EXCEPT !.delay_before = delay])
                      ELSE r

\* [build_task(task_spec) for task_spec in spec["tasks"]]: the tasks, or
\* the error of the first task that fails
RECURSIVE BuildTasks(_)
BuildTasks(specs) ==
    IF specs = <<>> THEN [err |-> "none", tasks |-> <<>>]
    ELSE LET head == BuildTask(specs[1])
         IN  IF head.err # "none" THEN [err |-> head.err, tasks |-> <<>>]
             ELSE LET rest == BuildTasks(Tail(specs))
                  IN  IF rest.err # "none" THEN rest
                      ELSE [err |-> "none", tasks |-> <<head.task>> \o rest.tasks]

\* build_workflow
BuildWorkflow(name, spec) ==
    IF ~spec.has_tasks THEN [err |-> "ValueError", name |-> name, tasks |-> <<>>]
    ELSE LET r == BuildTasks(spec.tasks)
         IN  [err |-> r.err, name |-> name, tasks |-> r.tasks]

\* datetime.fromisoformat, on timestamps written as decimal tick counts
DigitValue(c) ==
    CASE c = "0" -> 0 [] c = "1" -> 1 [] c = "2" -> 2 [] c = "3" -> 3
      [] c = "4" -> 4 [] c = "5" -> 5 [] c = "6" -> 6 [] c = "7" -> 7
      [] c = "8" -> 8 [] c = "9" -> 9 [] OTHER -> -1

RECURSIVE Decimal(_)
Decimal(s) ==
    IF s = <<>> THEN 0
    ELSE 10 * Decimal(SubSeq(s, 1, Len(s) - 1)) + DigitValue(s[Len(s)])

FromIsoFormat(s) ==
    IF s = <<>> \/ \E i \in 1..Len(s) : DigitValue(s[i]) < 0
    THEN [err |-> "ValueError", at |-> 0]
    ELSE [err |-> "none", at |-> Decimal(s)]

\* A schedule block; a workflow without one has neither key
Schedule(has_delay, delay_seconds, has_run_at, run_at) ==
    [has_delay |-> has_delay, delay_seconds |-> delay_seconds,
     has_run_at |-> has_run_at, run_at |-> run_at]

\* load_workflows_from_config, the schedule: the run_at handed to
\* add_workflow (none: add_workflow takes datetime.now())
ScheduledRunAtAbsoluteFirst(schedule_spec, clock) ==
    IF schedule_spec.has_run_at
    THEN LET r == FromIsoFormat(schedule_spec.run_at)
         IN  [err |-> r.err, none |-> FALSE, at |-> r.at]
    ELSE IF schedule_spec.has_delay
    THEN [err |-> "none", none |-> FALSE,
          at |-> clock + schedule_spec.delay_seconds]
    ELSE [err |-> "none", none |-> TRUE, at |-> 0]

ScheduledRunAt(schedule_spec, clock) ==
    IF schedule_spec.has_delay
    THEN [err |-> "none", none |-> FALSE,
          at |-> clock + schedule_spec.delay_seconds]
    ELSE IF schedule_spec.has_run_at
    THEN LET r == FromIsoFormat(schedule_spec.run_at)
         IN  [err |-> r.err, none |-> FALSE, at |-> r.at]
    ELSE [err |-> "none", none |-> TRUE, at |-> 0]

\* Scheduler.add_workflow on a list: run_at defaults to datetime.now()
AddEntry(entries, name, run_at, clock) ==
    Append(entries,
           [id |-> Len(entries) + 1, workflow |-> name,
            run_at |-> IF run_at.none THEN clock ELSE run_at.at])

\* filter_scheduler_workflows: the names as sorted(...) orders them
NameOrder == <<"A", "B", "Y", "Z">>

Range(s) == {s[i] : i \in 1..Len(s)}

SortedNames(S) == SelectSeq(NameOrder, LAMBDA n : n \in S)

FilterReportsFirstMissing(entries, names) ==
    LET selected == SelectSeq(entries, LAMBDA wf : wf.workflow \in Range(names))
        missing  == Range(names) \ {selected[i].workflow : i \in 1..Len(selected)}
    IN  IF missing # {}
        THEN [err |-> "SystemExit", message |-> SubSeq(SortedNames(missing), 1, 1),
              workflows |-> entries]
        ELSE [err |-> "none", message |-> <<>>, workflows |-> selected]

FilterSchedulerWorkflows(entries, names) ==
    LET selected == SelectSeq(entries, LAMBDA wf : wf.workflow \in Range(names))
        missing  == Range(names) \ {selected[i].workflow : i \in 1..Len(selected)}
    IN  IF missing # {}
        THEN [err |-> "SystemExit", message |-> SortedNames(missing),
              workflows |-> entries]
        ELSE [err |-> "none", message |-> <<>>, workflows |-> selected]

\* The documents and command lines given to main
TaskSpecs ==
    { TaskSpec(TRUE, "click", {"button"}, <<>>, 0, 0),
      TaskSpec(TRUE, "Click", {}, <<>>, 0, 0),
      TaskSpec(TRUE, "click", {"button", "delay_before"}, <<>>, 1, 0),
      TaskSpec(TRUE, "move", {"x", "y"}, <<>>, 0, 0),
      TaskSpec(TRUE, "move", {"x"}, <<>>, 0, 0),
      TaskSpec(TRUE, "move", {"x", "y", "delay_before"}, <<>>, 2, 0),
      TaskSpec(TRUE, "type", {"text"}, <<>>, 0, 0),
      TaskSpec(TRUE, "type", {"text", "delay_before"}, <<>>, 1, 0),
      TaskSpec(TRUE, "hotkey", {"keys"}, <<>>, 0, 0),
      TaskSpec(TRUE, "hotkey", {"keys"}, <<"ctrl", "c">>, 0, 0),
      TaskSpec(TRUE, "hotkey", {"keys", "delay_before"}, <<"ctrl", "c">>, 1, 0),
      TaskSpec(TRUE, "hotkey", {}, <<>>, 0, 0),
      TaskSpec(TRUE, "wait", {"seconds"}, <<>>, 0, 2),
      TaskSpec(TRUE, "WAIT", {"seconds", "delay_before"}, <<>>, 1, 2),
      TaskSpec(TRUE, "wait", {"seconds", "delay_before"}, <<>>, 0, 2),
      TaskSpec(TRUE, "drag", {"x"}, <<>>, 0, 0),
      TaskSpec(FALSE, "", {"x"}, <<>>, 0, 0) }

NoSchedule == Schedule(FALSE, 0, FALSE, <<>>)

Schedules ==
    { NoSchedule,
      Schedule(TRUE, 2, FALSE, <<>>),
      Schedule(FALSE, 0, TRUE, <<"4">>),
      Schedule(FALSE, 0, TRUE, <<"1", "0">>),
      Schedule(TRUE, 2, TRUE, <<"4">>),
      Schedule(FALSE, 0, TRUE, <<"x">>),
      Schedule(TRUE, 2, TRUE, <<"x">>) }

WorkflowSpec(name, has_tasks, tasks, schedule) ==
    [name |-> name, has_tasks |-> has_tasks, tasks |-> tasks,
     schedule |-> schedule]

Document(workflows_config) ==
    [has_workflows |-> TRUE, workflows |-> workflows_config]

\* One workflow of up to two tasks of any kind
TaskLists ==
    {<<>>} \cup {<<a>> : a \in TaskSpecs}
           \cup {<<a, b>> : a \in TaskSpecs, b \in TaskSpecs}

SingleDocuments ==
    {NoDocument, Document(<<>>),
     Document(<<WorkflowSpec("A", FALSE, <<>>, NoSchedule)>>)}
    \cup {Document(<<WorkflowSpec("A", TRUE, ts, s)>>) :
              ts \in TaskLists, s \in Schedules}

\* Two workflows of one task each
ShortLists ==
    { <<TaskSpec(TRUE, "click", {"button"}, <<>>, 0, 0)>>,
      <<TaskSpec(TRUE, "move", {"x"}, <<>>, 0, 0)>> }

ShortSchedules ==
    { NoSchedule, Schedule(TRUE, 2, FALSE, <<>>),
      Schedule(FALSE, 0, TRUE, <<"4">>), Schedule(TRUE, 2, TRUE, <<"4">>) }

DoubleDocuments ==
    {Document(<<WorkflowSpec("A", TRUE, ta, sa), WorkflowSpec("B", TRUE, tb, sb)>>) :
         ta \in ShortLists, sa \in ShortSchedules,
         tb \in ShortLists, sb \in ShortSchedules}

Argv(list, names) == [list |-> list, workflows |-> names]

Argvs ==
    { NoArgv, Argv(TRUE, <<>>), Argv(FALSE, <<"A">>), Argv(FALSE, <<"B", "A">>),
      Argv(FALSE, <<"B", "B">>), Argv(FALSE, <<"Z", "A", "Y">>),
      Argv(FALSE, <<"Z">>) }

\* A log entry: op is "start"/"end" (Workflow.run began/completed), "delay"
\* (the pre-delay sleep of task k), "act" (task k's backend call was made
\* and returned) or "raise" (task k raised err)
Ev(op, id, k, err) == [op |-> op, id |-> id, k |-> k, err |-> err]

NoCancel == [set |-> FALSE, T |-> 0, pc |-> "none", idx |-> 0]

Min(a, b) == IF a < b THEN a ELSE b
Max(a, b) == IF a > b THEN a ELSE b

\* The entry and the task the loops are at
Scheduled == workflows[idx]
CurTasks  == Tasks(Scheduled.workflow)
CurTask   == CurTasks[tk]

Init ==
    /\ workflows = <<>>
    /\ hotkey \in {NoneStr, Str(<<"c", "+", "x">>)}
    /\ require_window_title \in RequiredTitles
    /\ keyboard_ok \in BOOLEAN
    /\ pyautogui_ok \in BOOLEAN
    /\ now = 0
    /\ pc = "idle"
    /\ idx = 0
    /\ tk = 0
    /\ timeout = 0
    /\ deadline = 0
    /\ event = FALSE
    /\ registered_hotkey = FALSE
    /\ hooks = 0
    /\ api = "none"
    /\ exc = "none"
    /\ outcome = "running"
    /\ entered = FALSE
    /\ log = <<>>
    /\ seen = NoWindow
    /\ cancel = NoCancel
    /\ runs = <<>>
    /\ document = NoDocument
    /\ argv = NoArgv
    /\ built = <<>>
    /\ message = <<>>

\* ---------------------------------------------------------- environment
\* The clock advances while run() is on the stack. Past MaxTime it only
\* advances as far as the blocking call in progress needs to return.
Tick ==
    /\ pc \notin {"idle", "done"}
    /\ \/ now < MaxTime
       \/ pc \in {"wait", "predelay", "sleeping"} /\ now < deadline
    /\ now' = now + 1
    /\ UNCHANGED << workflows, config, cli, runs, api, pc, idx, tk, timeout, deadline, event,
                    registered_hotkey, hooks, exc, outcome, entered, log,
                    seen, cancel >>

\* The keyboard library's thread calls the registered callback,
\* self._event.set.
HotkeyPressed ==
    /\ hooks > 0
    /\ event' = TRUE
    /\ cancel' = IF event THEN cancel
                 ELSE [set |-> TRUE, T |-> now, pc |-> pc, idx |-> idx]
    /\ UNCHANGED << workflows, config, cli, runs, api, now, pc, idx, tk, timeout, deadline,
                    registered_hotkey, hooks, exc, outcome, entered, log,
                    seen >>

\* ------------------------------------------------------------ Scheduler
\* Scheduler.add_workflow(workflow, run_at)
AddWorkflow(name, run_at) ==
    /\ pc = "idle"
    /\ Len(workflows) < MaxEntries
    /\ workflows' = Append(workflows,
           [id |-> Len(workflows) + 1, workflow |-> name, run_at |-> run_at])
    /\ UNCHANGED << config, cli, runs, api, now, pc, idx, tk, timeout, deadline, event,
                    registered_hotkey, hooks, exc, outcome, entered, log,
                    seen, cancel >>

\* Scheduler.run without the `if not self.workflows: return`
RunStartNoEmptyCheck ==
    /\ pc = "idle"
    /\ workflows' = IF Len(workflows) > 1 THEN SortByRunAt(workflows)
                    ELSE workflows
    /\ event' = FALSE
    /\ registered_hotkey' = FALSE
    /\ pc' = "enter"
    /\ UNCHANGED << config, cli, runs, api, now, idx, tk, timeout, deadline, hooks, exc,
                    outcome, entered, log, seen, cancel >>

\* run() going on with the listener a call before it has left behind
RunStartReusesListener ==
    /\ pc = "idle"
    /\ IF workflows = <<>>
       THEN /\ pc' = "done"
            /\ outcome' = "returned"
            /\ UNCHANGED << workflows, event, registered_hotkey >>
       ELSE /\ workflows' = IF Len(workflows) > 1 THEN SortByRunAt(workflows)
                            ELSE workflows
            /\ pc' = "enter"
            /\ UNCHANGED << outcome, event, registered_hotkey >>
    /\ UNCHANGED << config, cli, runs, api, now, idx, tk, timeout, deadline, hooks, exc,
                    entered, log, seen, cancel >>

\* Scheduler.run up to initialize_safety: the empty check, the sort, and the
\* new HotkeyListener (a fresh Event, nothing registered).
RunStart ==
    /\ pc = "idle"
    /\ IF workflows = <<>>
       THEN /\ pc' = "done"
            /\ outcome' = "returned"
            /\ UNCHANGED << workflows, event, registered_hotkey >>
       ELSE /\ workflows' = IF Len(workflows) > 1 THEN SortByRunAt(workflows)
                            ELSE workflows
            /\ event' = FALSE
            /\ registered_hotkey' = FALSE
            /\ pc' = "enter"
            /\ UNCHANGED outcome
    /\ UNCHANGED << config, cli, runs, api, now, idx, tk, timeout, deadline, hooks, exc,
                    entered, log, seen, cancel >>

\* __enter__ raising when the hotkey is configured and the keyboard
\* library is missing; the with block is never entered
EnterRaisesWithoutKeyboard ==
    /\ pc = "enter"
    /\ IF Truthy(hotkey) /\ ~keyboard_ok
       THEN /\ exc' = "RuntimeError"
            /\ outcome' = "RuntimeError"
            /\ pc' = "done"
            /\ UNCHANGED << registered_hotkey, hooks, entered >>
       ELSE /\ IF Truthy(hotkey) /\ keyboard_ok
               THEN registered_hotkey' = TRUE /\ hooks' = hooks + 1
               ELSE UNCHANGED << registered_hotkey, hooks >>
            /\ entered' = TRUE
            /\ pc' = "api"
            /\ UNCHANGED << exc, outcome >>
    /\ UNCHANGED << workflows, config, cli, runs, api, now, idx, tk, timeout, deadline, event,
                    log, seen, cancel >>

\* HotkeyListener.__enter__
Enter ==
    /\ pc = "enter"
    /\ IF Truthy(hotkey) /\ keyboard_ok
       THEN registered_hotkey' = TRUE /\ hooks' = hooks + 1
       ELSE UNCHANGED << registered_hotkey, hooks >>
    /\ entered' = TRUE
    /\ pc' = "api"
    /\ UNCHANGED << workflows, config, cli, runs, api, now, idx, tk, timeout, deadline, event,
                    exc, outcome, log, seen, cancel >>

\* AutomationAPI.__init__ without the `if pyautogui is None` check
NewApiUnchecked ==
    /\ pc = "api"
    /\ api' = "constructed"
    /\ idx' = 1
    /\ pc' = "for"
    /\ UNCHANGED << workflows, config, cli, runs, now, tk, timeout, deadline, event,
                    registered_hotkey, hooks, exc, outcome, entered, log, seen,
                    cancel >>

\* AutomationAPI() and TaskContext(...) inside the with block
NewApi ==
    /\ pc = "api"
    /\ IF pyautogui_ok
       THEN api' = "constructed" /\ idx' = 1 /\ pc' = "for" /\ UNCHANGED exc
       ELSE /\ api' = "failed"
            /\ exc' = "AutomationError"
            /\ pc' = "exit"
            /\ UNCHANGED idx
    /\ UNCHANGED << workflows, config, cli, runs, now, tk, timeout, deadline, event,
                    registered_hotkey, hooks, outcome, entered, log, seen,
                    cancel >>

\* `for scheduled in self.workflows`: the next entry, or the end of the loop
ForNext ==
    /\ pc = "for"
    /\ pc' = IF idx > Len(workflows) THEN "exit" ELSE "clock"
    /\ UNCHANGED << workflows, config, cli, runs, api, now, idx, tk, timeout, deadline, event,
                    registered_hotkey, hooks, exc, outcome, entered, log,
                    seen, cancel >>

\* _maybe_wait_until taking less than a second to go as due
WaitClockEarly ==
    /\ pc = "clock"
    /\ LET remaining == Scheduled.run_at - now
       IN  IF remaining < OneSecond
           THEN pc' = "check" /\ UNCHANGED << timeout, deadline >>
           ELSE /\ timeout' = Min(remaining, OneSecond)
                /\ deadline' = now + timeout'
                /\ pc' = "wait"
    /\ UNCHANGED << workflows, config, cli, runs, api, now, idx, tk, event, registered_hotkey,
                    hooks, exc, outcome, entered, log, seen, cancel >>

\* _maybe_wait_until: read the clock, return if due, else call listener.wait
WaitClock ==
    /\ pc = "clock"
    /\ LET remaining == Scheduled.run_at - now
       IN  IF remaining <= 0
           THEN pc' = "check" /\ UNCHANGED << timeout, deadline >>
           ELSE /\ timeout' = Min(remaining, OneSecond)
                /\ deadline' = now + timeout'
                /\ pc' = "wait"
    /\ UNCHANGED << workflows, config, cli, runs, api, now, idx, tk, event, registered_hotkey,
                    hooks, exc, outcome, entered, log, seen, cancel >>

\* HotkeyListener.wait on an auto-reset event: the wait consumes the signal
WaitReturnClearsEvent ==
    /\ pc = "wait"
    /\ event \/ now >= deadline
    /\ pc' = "wcheck"
    /\ timeout' = 0
    /\ deadline' = 0
    /\ event' = FALSE
    /\ UNCHANGED << workflows, config, cli, runs, api, now, idx, tk, registered_hotkey,
                    hooks, exc, outcome, entered, log, seen, cancel >>

\* HotkeyListener.wait without its timeout: Event.wait() blocks until set
WaitReturnWithoutTimeout ==
    /\ pc = "wait"
    /\ event
    /\ pc' = "wcheck"
    /\ timeout' = 0
    /\ deadline' = 0
    /\ UNCHANGED << workflows, config, cli, runs, api, now, idx, tk, event, registered_hotkey,
                    hooks, exc, outcome, entered, log, seen, cancel >>

\* HotkeyListener.wait: Event.wait returns when the event is set or the
\* timeout has passed
WaitReturn ==
    /\ pc = "wait"
    /\ event \/ now >= deadline
    /\ pc' = "wcheck"
    /\ timeout' = 0
    /\ deadline' = 0
    /\ UNCHANGED << workflows, config, cli, runs, api, now, idx, tk, event, registered_hotkey,
                    hooks, exc, outcome, entered, log, seen, cancel >>

\* _maybe_wait_until: `if listener.cancelled: return`, else loop
WaitCancelled ==
    /\ pc = "wcheck"
    /\ pc' = IF event THEN "check" ELSE "clock"
    /\ UNCHANGED << workflows, config, cli, runs, api, now, idx, tk, timeout, deadline, event,
                    registered_hotkey, hooks, exc, outcome, entered, log,
                    seen, cancel >>

\* Scheduler.run without the listener.cancelled check before the workflow
CheckCancelledNeverBreaks ==
    /\ pc = "check"
    /\ log' = Append(log, Ev("start", Scheduled.id, 0, "none"))
    /\ tk' = 1
    /\ pc' = "task"
    /\ UNCHANGED << workflows, config, cli, runs, api, now, idx, timeout, deadline, event,
                    registered_hotkey, hooks, exc, outcome, entered, seen,
                    cancel >>

\* Scheduler.run: `if listener.cancelled: break`, else Workflow.run begins
CheckCancelled ==
    /\ pc = "check"
    /\ IF event
       THEN pc' = "exit" /\ UNCHANGED << tk, log >>
       ELSE /\ log' = Append(log, Ev("start", Scheduled.id, 0, "none"))
            /\ tk' = 1
            /\ pc' = "task"
    /\ UNCHANGED << workflows, config, cli, runs, api, now, idx, timeout, deadline, event,
                    registered_hotkey, hooks, exc, outcome, entered, seen,
                    cancel >>

\* Workflow.run returning early once the listener is cancelled
TaskNextStopsWhenCancelled ==
    /\ pc = "task"
    /\ IF event
       THEN /\ idx' = idx + 1
            /\ tk' = 0
            /\ pc' = "for"
            /\ UNCHANGED << deadline, log >>
       ELSE IF tk > Len(CurTasks)
       THEN /\ log' = Append(log, Ev("end", Scheduled.id, 0, "none"))
            /\ idx' = idx + 1
            /\ tk' = 0
            /\ pc' = "for"
            /\ UNCHANGED deadline
       ELSE IF CurTask.delay_before # 0
       THEN /\ log' = Append(log, Ev("delay", Scheduled.id, tk, "none"))
            /\ deadline' = now + Max(CurTask.delay_before, 0)
            /\ pc' = "predelay"
            /\ UNCHANGED << idx, tk >>
       ELSE /\ pc' = "run"
            /\ UNCHANGED << idx, tk, deadline, log >>
    /\ UNCHANGED << workflows, config, cli, runs, api, now, timeout, event, registered_hotkey,
                    hooks, exc, outcome, entered, seen, cancel >>

\* ------------------------------------------------------------- Workflow
\* Workflow.run: `for task in self.tasks` and the pre-delay
TaskNext ==
    /\ pc = "task"
    /\ IF tk > Len(CurTasks)
       THEN /\ log' = Append(log, Ev("end", Scheduled.id, 0, "none"))
            /\ idx' = idx + 1
            /\ tk' = 0
            /\ pc' = "for"
            /\ UNCHANGED deadline
       ELSE IF CurTask.delay_before # 0
       THEN /\ log' = Append(log, Ev("delay", Scheduled.id, tk, "none"))
            /\ deadline' = now + Max(CurTask.delay_before, 0)
            /\ pc' = "predelay"
            /\ UNCHANGED << idx, tk >>
       ELSE /\ pc' = "run"
            /\ UNCHANGED << idx, tk, deadline, log >>
    /\ UNCHANGED << workflows, config, cli, runs, api, now, timeout, event, registered_hotkey,
                    hooks, exc, outcome, entered, seen, cancel >>

\* AutomationAPI.sleep returns: of the pre-delay, or of a WaitTask
SleepReturn ==
    /\ pc \in {"predelay", "sleeping"}
    /\ now >= deadline
    /\ deadline' = 0
    /\ IF pc = "predelay"
       THEN pc' = "run" /\ UNCHANGED tk
       ELSE pc' = "task" /\ tk' = tk + 1
    /\ UNCHANGED << workflows, config, cli, runs, api, now, idx, timeout, event,
                    registered_hotkey, hooks, exc, outcome, entered, log,
                    seen, cancel >>

\* What ensure_focus gets from pyautogui.getActiveWindow(); it returns or
\* raises before that call when no title is required or pyautogui is None
ActiveWindows ==
    IF Truthy(require_window_title) /\ pyautogui_ok THEN Windows ELSE {NoWindow}

\* Task.run inside a try/except that logs the focus error and goes on to
\* the next task
TaskRunContinuesAfterError ==
    /\ pc = "run"
    /\ IF FocusChecked(CurTask.type)
       THEN \E window \in ActiveWindows :
              /\ seen' = window
              /\ LET r == EnsureFocus(require_window_title, pyautogui_ok, window)
                 IN  IF r = "ok"
                     THEN pc' = "act" /\ UNCHANGED << exc, log, tk >>
                     ELSE /\ log' = Append(log, Ev("raise", Scheduled.id, tk, r))
                          /\ tk' = tk + 1
                          /\ pc' = "task"
                          /\ UNCHANGED exc
              /\ UNCHANGED deadline
       ELSE /\ log' = Append(log, Ev("act", Scheduled.id, tk, "none"))
            /\ deadline' = now + Max(CurTask.seconds, 0)
            /\ pc' = "sleeping"
            /\ UNCHANGED << exc, seen, tk >>
    /\ UNCHANGED << workflows, config, cli, runs, api, now, idx, timeout, event,
                    registered_hotkey, hooks, outcome, entered, cancel >>

\* Task.run up to the backend call: ensure_focus for Move, Click, Type and
\* Hotkey; WaitTask calls api.sleep at once
TaskRun ==
    /\ pc = "run"
    /\ IF FocusChecked(CurTask.type)
       THEN \E window \in ActiveWindows :
              /\ seen' = window
              /\ LET r == EnsureFocus(require_window_title, pyautogui_ok, window)
                 IN  IF r = "ok"
                     THEN pc' = "act" /\ UNCHANGED << exc, log >>
                     ELSE /\ exc' = r
                          /\ log' = Append(log, Ev("raise", Scheduled.id, tk, r))
                          /\ pc' = "exit"
              /\ UNCHANGED deadline
       ELSE /\ log' = Append(log, Ev("act", Scheduled.id, tk, "none"))
            /\ deadline' = now + Max(CurTask.seconds, 0)
            /\ pc' = "sleeping"
            /\ UNCHANGED << exc, seen >>
    /\ UNCHANGED << workflows, config, cli, runs, api, now, idx, tk, timeout, event,
                    registered_hotkey, hooks, outcome, entered, cancel >>

\* The backend call of a Move, Click, Type or Hotkey task: it returns, or
\* pyautogui raises (its fail-safe, which is no AutomationError)
BackendCall ==
    /\ pc = "act"
    /\ seen' = NoWindow
    /\ \/ /\ log' = Append(log, Ev("act", Scheduled.id, tk, "none"))
          /\ tk' = tk + 1
          /\ pc' = "task"
          /\ UNCHANGED exc
       \/ /\ log' = Append(log, Ev("raise", Scheduled.id, tk, "FailSafeException"))
          /\ exc' = "FailSafeException"
          /\ pc' = "exit"
          /\ UNCHANGED tk
    /\ UNCHANGED << workflows, config, cli, runs, api, now, idx, timeout, deadline, event,
                    registered_hotkey, hooks, outcome, entered, cancel >>

\* `except AutomationError: log` without the `raise`
RaisedUnlessAutomationError(e) == IF e = "AutomationError" THEN "returned" ELSE e

\* ------------------------------------------------------------ teardown
\* What run() raises to its caller once the with block has been left:
\* `except AutomationError: log; raise`, anything else passes through
Raised(e) == e

\* A listener torn down after the with block instead of by __exit__: the
\* teardown is skipped when an exception leaves the block
GuardExitOnSuccessOnly ==
    /\ pc = "exit"
    /\ IF exc = "none"
       THEN /\ IF registered_hotkey /\ keyboard_ok
               THEN hooks' = hooks - 1
               ELSE UNCHANGED hooks
            /\ event' = TRUE
       ELSE UNCHANGED << hooks, event >>
    /\ outcome' = IF exc = "none" THEN "returned" ELSE Raised(exc)
    /\ pc' = "done"
    /\ UNCHANGED << workflows, config, cli, runs, api, now, idx, tk, timeout, deadline,
                    registered_hotkey, exc, entered, log, seen, cancel >>

\* HotkeyListener.__exit__, then run() returns or raises
GuardExit ==
    /\ pc = "exit"
    /\ IF registered_hotkey /\ keyboard_ok
       THEN hooks' = hooks - 1
       ELSE UNCHANGED hooks
    /\ event' = TRUE
    /\ outcome' = IF exc = "none" THEN "returned" ELSE Raised(exc)
    /\ pc' = "done"
    /\ UNCHANGED << workflows, config, cli, runs, api, now, idx, tk, timeout, deadline,
                    registered_hotkey, exc, entered, log, seen, cancel >>

\* ------------------------------------------------------------ cli.main
\* What the loader and the command line leave alone
run_state == << config, tk, timeout, deadline, event, registered_hotkey, hooks,
                api, exc, entered, log, seen, cancel, runs, document, argv >>

\* load_workflows_from_config, up to the loop over the workflows
LoadStart ==
    /\ pc = "main"
    /\ IF ~document.has_workflows \/ document.workflows = <<>>
       THEN /\ outcome' = "ValueError"
            /\ pc' = "done"
            /\ idx' = idx
       ELSE /\ pc' = "load"
            /\ idx' = 1
            /\ outcome' = outcome
    /\ UNCHANGED << workflows, built, message, now, run_state >>

\* One round of the loop: build_workflow, the schedule, add_workflow. An
\* exception leaves load_workflows_from_config, and its scheduler is lost.
\* built keeps the Workflow objects by entry id, with the clock at the call
\* of add_workflow (added_at, history only).
LoadWorkflow ==
    /\ pc = "load"
    /\ idx <= Len(document.workflows)
    /\ LET spec     == document.workflows[idx]
           workflow == BuildWorkflow(spec.name, spec)
           run_at   == ScheduledRunAt(spec.schedule, now)
       IN  IF workflow.err # "none" \/ run_at.err # "none"
           THEN /\ outcome' = IF workflow.err # "none" THEN workflow.err
                              ELSE run_at.err
                /\ pc' = "done"
                /\ workflows' = <<>>
                /\ built' = <<>>
                /\ idx' = idx
           ELSE /\ workflows' = AddEntry(workflows, workflow.name, run_at, now)
                /\ built' = Append(built, [name |-> workflow.name,
                                           tasks |-> workflow.tasks,
                                           added_at |-> now])
                /\ idx' = idx + 1
                /\ UNCHANGED << pc, outcome >>
    /\ UNCHANGED << message, now, run_state >>

\* return scheduler, workflows
LoadReturn ==
    /\ pc = "load"
    /\ idx > Len(document.workflows)
    /\ pc' = "loaded"
    /\ UNCHANGED << workflows, built, message, now, idx, outcome, run_state >>

\* main, --list: the names are printed and main returns 0
MainList ==
    /\ pc = "loaded"
    /\ argv.list
    /\ message' = [i \in 1..Len(built) |-> built[i].name]
    /\ outcome' = "returned"
    /\ pc' = "done"
    /\ UNCHANGED << workflows, built, now, idx, run_state >>

\* main, if args.workflows: filter_scheduler_workflows; then the call of
\* scheduler.run() is reached (pc "call") unless SystemExit was raised
MainFilter ==
    /\ pc = "loaded"
    /\ ~argv.list
    /\ IF argv.workflows # <<>>
       THEN LET r == FilterSchedulerWorkflows(workflows, argv.workflows)
            IN  /\ workflows' = r.workflows
                /\ message' = r.message
                /\ IF r.err # "none"
                   THEN outcome' = r.err /\ pc' = "done"
                   ELSE outcome' = outcome /\ pc' = "call"
       ELSE /\ pc' = "call"
            /\ UNCHANGED << workflows, message, outcome >>
    /\ UNCHANGED << built, now, idx, run_state >>

InitLoad ==
    /\ workflows = <<>>
    /\ hotkey = Str(<<"c", "+", "x">>)
    /\ require_window_title = NoneStr
    /\ keyboard_ok = TRUE
    /\ pyautogui_ok = TRUE
    /\ now = 0
    /\ pc = "main"
    /\ idx = 0
    /\ tk = 0
    /\ timeout = 0
    /\ deadline = 0
    /\ event = FALSE
    /\ registered_hotkey = FALSE
    /\ hooks = 0
    /\ api = "none"
    /\ exc = "none"
    /\ outcome = "running"
    /\ entered = FALSE
    /\ log = <<>>
    /\ seen = NoWindow
    /\ cancel = NoCancel
    /\ runs = <<>>
    /\ built = <<>>
    /\ message = <<>>
    /\ \/ document \in SingleDocuments /\ argv \in {NoArgv, Argv(TRUE, <<>>)}
       \/ document \in DoubleDocuments /\ argv \in Argvs

NextLoad ==
    \/ Tick
    \/ LoadStart
    \/ LoadWorkflow
    \/ LoadReturn
    \/ MainList
    \/ MainFilter

SpecLoad == InitLoad /\ [][NextLoad]_vars

Next ==
    \/ Tick
    \/ HotkeyPressed
    \/ \E name \in WorkflowNames, run_at \in RunAts : AddWorkflow(name, run_at)
    \/ RunStart
    \/ Enter
    \/ NewApi
    \/ ForNext
    \/ WaitClock
    \/ WaitReturn
    \/ WaitCancelled
    \/ CheckCancelled
    \/ TaskNext
    \/ SleepReturn
    \/ TaskRun
    \/ BackendCall
    \/ GuardExit

Spec == Init /\ [][Next]_vars

\* The steps of the thread inside Scheduler.run, from __enter__ to the return
RunStep ==
    \/ Enter
    \/ NewApi
    \/ ForNext
    \/ WaitClock
    \/ WaitReturn
    \/ WaitCancelled
    \/ CheckCancelled
    \/ TaskNext
    \/ SleepReturn
    \/ TaskRun
    \/ BackendCall
    \/ GuardExit

\* The same behaviours under the assumptions that the clock advances and
\* that the running thread is scheduled and every call it makes returns.
\* Nothing is assumed of the caller (add_workflow, run) or of the hotkey.
FairSpec == Spec /\ WF_vars(Tick) /\ WF_vars(RunStep)

\* ----------------------------------------------------- run() called again
\* run() is over and its caller has the scheduler back: the locals of the
\* call are gone, how it ended is kept in runs. The listener of the call is
\* garbage; event and registered_hotkey keep what it was left with until the
\* next call makes its own.
RunAgain ==
    /\ pc = "done"
    /\ Len(runs) < MaxRuns - 1
    /\ runs' = Append(runs,
                      [outcome |-> outcome, cancelled |-> cancel.set,
                       completed |-> Cardinality({p \in 1..Len(log) :
                                                      log[p].op = "end"})])
    /\ pc' = "idle"
    /\ idx' = 0
    /\ tk' = 0
    /\ timeout' = 0
    /\ deadline' = 0
    /\ api' = "none"
    /\ exc' = "none"
    /\ outcome' = "running"
    /\ entered' = FALSE
    /\ log' = <<>>
    /\ seen' = NoWindow
    /\ cancel' = NoCancel
    /\ UNCHANGED << workflows, config, cli, now, event, registered_hotkey, hooks >>

\* A scheduler with the cancel hotkey in working order
InitRerun ==
    /\ Init
    /\ Truthy(hotkey)
    /\ keyboard_ok
    /\ pyautogui_ok
    /\ ~Truthy(require_window_title)

NextRerun ==
    \/ Next
    \/ RunAgain

SpecRerun == InitRerun /\ [][NextRerun]_vars

\* ------------------------------------------------------------ properties
\* Reading the log
Positions(op) == { p \in 1..Len(log) : log[p].op = op }

\* The entry with a given insertion number
Entry(id) == CHOOSE e \in { workflows[i] : i \in 1..Len(workflows) } : e.id = id

\* The tasks of entry id acted on in the first n log entries, in order
RECURSIVE ActsOf(_, _)
ActsOf(id, n) ==
    IF n = 0 THEN <<>>
    ELSE IF log[n].id = id /\ log[n].op = "act"
         THEN Append(ActsOf(id, n - 1), log[n].k)
         ELSE ActsOf(id, n - 1)

RunningWorkflow == {"task", "predelay", "run", "act", "sleeping"}
InWait          == {"clock", "wait", "wcheck"}

\* C1: the workflows run() has started so far were started in non-decreasing
\* run_at order, and of two started entries with the same run_at the one
\* added first was started first.
C1_ExecutedInRunAtOrder ==
    \A p, q \in Positions("start") :
        p < q =>
            /\ Entry(log[p].id).run_at <= Entry(log[q].id).run_at
            /\ Entry(log[p].id).run_at = Entry(log[q].id).run_at
                   => log[p].id < log[q].id

\* Two entries with the same run_at have both been started.
C1_Witness ==
    \E p, q \in Positions("start") :
        /\ p < q
        /\ Entry(log[p].id).run_at = Entry(log[q].id).run_at

\* C2: if the hotkey callback set the event at time T while the scheduler
\* was in _maybe_wait_until, no entry with run_at > T is ever started.
C2_CancelInWaitSkipsLater ==
    (cancel.set /\ cancel.pc \in InWait) =>
        \A p \in Positions("start") : Entry(log[p].id).run_at <= cancel.T

\* The run ended after a cancellation during listener.wait; the first entry
\* had run and the second, due later than T, was skipped.
C2_Witness ==
    /\ pc = "done"
    /\ cancel.set /\ cancel.pc = "wait"
    /\ Len(workflows) = 2
    /\ workflows[2].run_at > cancel.T
    /\ Positions("start") = {1}

\* C3: when task k of a workflow raises, the tasks acted on since that
\* workflow started are exactly tasks 1..k-1, once each and in order, the
\* failure is in flight to the caller, and nothing is logged after it: no
\* pre-delay and no action of tasks k+1..N.
C3_FirstFailureAborts ==
    \A p \in Positions("raise") :
        /\ ActsOf(log[p].id, p) = [j \in 1..(log[p].k - 1) |-> j]
        /\ p = Len(log)
        /\ exc = log[p].err
        /\ pc \in {"exit", "done"}

\* The second of three tasks raised: one task ran before it, one is left.
C3_Witness ==
    \E p \in Positions("raise") :
        /\ log[p].k = 2
        /\ Entry(log[p].id).workflow = "A"
        /\ ActsOf(log[p].id, p) = << 1 >>

\* C4: once __enter__ has returned, when run() has returned or raised the
\* keyboard library holds no hotkey of ours (it was removed if and only if
\* it had been added) and the event is set.
C4_TeardownOnEveryExit ==
    /\ hooks \in {0, 1}
    /\ (pc = "done" /\ entered) => (hooks = 0 /\ event)

\* run() raised a task's focus error while the hotkey was registered.
C4_Witness ==
    /\ pc = "done"
    /\ entered
    /\ registered_hotkey
    /\ outcome = "AutomationError"
    /\ Positions("raise") # {}

\* C5: an AutomationError raised by a task is the last thing the run does
\* to the workflows (no later task, no later workflow), and run() raises it
\* to its caller.
C5_SafetyFailureEndsRun ==
    \A p \in Positions("raise") :
        log[p].err = "AutomationError" =>
            /\ p = Len(log)
            /\ pc \in {"exit", "done"}
            /\ pc = "done" => outcome = "AutomationError"

\* The first of two entries failed its focus check; the second never ran.
C5_Witness ==
    /\ pc = "done"
    /\ Len(workflows) = 2
    /\ outcome = "AutomationError"
    /\ \E p \in Positions("raise") : log[p].id = workflows[1].id


\* C6: while a workflow runs the clock is at or past its entry's run_at (so
\* it was when the workflow started); every listener.wait call is given a
\* timeout of at most one second; and after each wait the cancelled check
\* comes next, the loop going round again only if the event was unset.
C6_NoEarlyStart ==
    /\ [](/\ pc \in RunningWorkflow => now >= Scheduled.run_at
          /\ pc = "wait" => (timeout >= 1 /\ timeout <= OneSecond))
    /\ [][/\ (pc = "wait" /\ pc' # "wait") => pc' = "wcheck"
          /\ (pc = "wcheck" /\ pc' = "clock") => ~event]_vars

\* A workflow due after more than one second starts exactly when due.
C6_Witness ==
    /\ pc = "task"
    /\ tk = 1
    /\ Scheduled.run_at > OneSecond
    /\ now = Scheduled.run_at

\* C7: run() on an empty list has returned normally without entering the
\* listener, registering a hotkey, constructing AutomationAPI or running
\* anything.
C7_EmptyRunIsNoOp ==
    (pc = "done" /\ workflows = <<>>) =>
        /\ outcome = "returned"
        /\ log = <<>>
        /\ ~entered
        /\ ~registered_hotkey
        /\ hooks = 0
        /\ api = "none"

\* run() returned on an empty list although a hotkey is configured and
\* both libraries are there.
C7_Witness ==
    /\ pc = "done"
    /\ workflows = <<>>
    /\ Truthy(hotkey) /\ keyboard_ok /\ pyautogui_ok

\* C8: if the hotkey callback set the event while the workflow of entry
\* number cancel.idx was running, no later entry is ever started, and when
\* the loop is left without an exception that workflow has completed, all
\* its tasks acted on once each and in order.
C8_CancelOnlyAtBoundaries ==
    (cancel.set /\ cancel.pc \in RunningWorkflow) =>
        LET e == workflows[cancel.idx]
        IN  /\ \A p \in Positions("start") :
                   \E i \in 1..cancel.idx : workflows[i].id = log[p].id
            /\ (pc \in {"exit", "done"} /\ exc = "none") =>
                   /\ log[Len(log)] = Ev("end", e.id, 0, "none")
                   /\ ActsOf(e.id, Len(log)) = [j \in 1..Len(Tasks(e.workflow)) |-> j]

\* Cancelled during the WaitTask of the first of two entries: the run has
\* returned, the first workflow completed and the second never started.
C8_Witness ==
    /\ pc = "done"
    /\ outcome = "returned"
    /\ cancel.set /\ cancel.pc = "sleeping" /\ cancel.idx = 1
    /\ Len(workflows) = 2
    /\ log[Len(log)].op = "end"

\* C9: from the moment run() has made its listener, no step takes the
\* event from set to unset.
C9_CancelledIsMonotone ==
    [][(event /\ pc # "idle") => event']_vars

\* The event was set by the hotkey callback, waits followed, and teardown
\* has run.
C9_Witness ==
    /\ pc = "done"
    /\ cancel.set /\ cancel.pc = "wait"
    /\ event

\* sub is in title, case-insensitively
TitleMatches(sub, window) ==
    /\ window.present
    /\ LET title == IF window.title.some THEN window.title.s ELSE <<>>
       IN  \E i \in 0..(Len(title) - Len(sub)) :
               \A j \in 1..Len(sub) : LowerChar(title[i + j]) = LowerChar(sub[j])

\* C10: a Move, Click, Type or Hotkey task with a required title raises
\* AutomationError without reaching its backend call when there is no
\* active window or its title does not contain the required one
\* (case-insensitively), and reaches the backend call otherwise; without a
\* required title it always reaches it; a Wait task goes to sleep without
\* a check. An AutomationError of a task is only ever raised by a
\* focus-checked task under a required title, and that task never acts.
C10_FocusCheck ==
    /\ [](\A p \in Positions("raise") :
            log[p].err = "AutomationError" =>
                /\ FocusChecked(Tasks(Entry(log[p].id).workflow)[log[p].k].type)
                /\ Truthy(require_window_title)
                /\ \A q \in Positions("act") :
                       ~(log[q].id = log[p].id /\ log[q].k = log[p].k))
    /\ [][(pc = "run" /\ pc' # "run") =>
            IF CurTask.type = "wait"
            THEN pc' = "sleeping" /\ exc' = "none"
            ELSE IF ~Truthy(require_window_title)
            THEN pc' = "act" /\ exc' = "none"
            ELSE IF TitleMatches(require_window_title.s, seen')
            THEN pc' = "act" /\ exc' = "none"
            ELSE /\ pc' = "exit"
                 /\ exc' = "AutomationError"
                 /\ log' = Append(log, Ev("raise", Scheduled.id, tk,
                                          "AutomationError"))]_vars

\* A task raised its focus error on a window with another title.
C10_Witness ==
    /\ pc = "exit"
    /\ exc = "AutomationError"
    /\ seen = Window(Str(<<"B", "A">>))
    /\ Positions("raise") # {}


\* No hotkey is registered in this configuration
Unregistered == ~(Truthy(hotkey) /\ keyboard_ok)

\* Every entry's workflow has run to completion
AllCompleted ==
    \A i \in 1..Len(workflows) :
        \E p \in Positions("end") : log[p].id = workflows[i].id

\* C11: without a hotkey, or without the keyboard library, nothing is ever
\* registered, __enter__ does not fail, and the event stays unset until
\* run() is over; and a run that has reached __enter__ with the backend
\* there comes to its end with every workflow completed unless a task
\* raised.
C11_NoHotkeyRunsEverything ==
    /\ [](Unregistered =>
            /\ hooks = 0
            /\ ~registered_hotkey
            /\ event => pc = "done"
            /\ (pc \notin {"idle", "enter"} /\ workflows # <<>>) => entered)
    /\ (Unregistered /\ pyautogui_ok /\ pc = "enter")
           ~> (pc = "done" /\ (Positions("raise") = {} => AllCompleted))

\* A hotkey is configured but the keyboard library is missing, and both
\* workflows have run to completion.
C11_Witness ==
    /\ pc = "done"
    /\ Truthy(hotkey) /\ ~keyboard_ok
    /\ Len(workflows) = 2
    /\ AllCompleted

\* C19: a run that has reached __enter__ comes to its end; every
\* listener.wait call returns, and it never has more than a second left
\* to block.
C19_RunTerminates ==
    /\ (pc = "enter") ~> (pc = "done")
    /\ (pc = "wait") ~> (pc = "wcheck")
    /\ [](pc = "wait" => deadline <= now + OneSecond)

\* The run ended without a cancellation after waiting more than a second
\* for its second entry.
C19_Witness ==
    /\ pc = "done"
    /\ ~cancel.set
    /\ Len(workflows) = 2
    /\ workflows[2].run_at > OneSecond
    /\ AllCompleted


\* C12: without pyautogui a run() on a non-empty list raises
\* AutomationError to its caller; it never gets to the for loop, so it
\* waits for no entry and starts no workflow or task, and it leaves no
\* hotkey registered.
C12_NoBackendNoRun ==
    ~pyautogui_ok =>
        /\ log = <<>>
        /\ api # "constructed"
        /\ pc \notin ({"for", "check"} \cup InWait \cup RunningWorkflow)
        /\ (pc = "done" /\ workflows # <<>>) =>
               (outcome = "AutomationError" /\ hooks = 0)

\* run() has raised for want of pyautogui, after registering the hotkey.
C12_Witness ==
    /\ pc = "done"
    /\ ~pyautogui_ok
    /\ registered_hotkey
    /\ Len(workflows) = 2
    /\ outcome = "AutomationError"


\* ---------------------------------------------------------------- C13
\* The timestamps of the documents and the instants they denote
IsoValue(s) == CASE s = <<"4">> -> 4 [] s = <<"1", "0">> -> 10 [] OTHER -> -1

ScheduleOf(e) == document.workflows[e.id].schedule

\* The statement as given: with both keys the absolute timestamp decides.
C13_AbsoluteTakesPrecedence ==
    \A i \in 1..Len(workflows) :
        LET e == workflows[i]
            s == ScheduleOf(e)
        IN  /\ s.has_run_at => e.run_at = IsoValue(s.run_at)
            /\ (s.has_delay /\ ~s.has_run_at)
                   => e.run_at = built[e.id].added_at + s.delay_seconds
            /\ (~s.has_delay /\ ~s.has_run_at) => e.run_at = built[e.id].added_at

\* C13 (amended): with both delay_seconds and run_at in the schedule block
\* the relative delay decides: run_at is load time plus delay_seconds and the
\* absolute timestamp is not even parsed. With only one of the two that one
\* determines run_at, and with neither run_at is the construction time.
C13_RelativeTakesPrecedence ==
    /\ \A i \in 1..Len(workflows) :
           LET e == workflows[i]
               s == ScheduleOf(e)
           IN  /\ s.has_delay
                      => e.run_at = built[e.id].added_at + s.delay_seconds
               /\ (s.has_run_at /\ ~s.has_delay) => e.run_at = IsoValue(s.run_at)
               /\ (~s.has_delay /\ ~s.has_run_at)
                      => e.run_at = built[e.id].added_at
    /\ (pc = "done" /\ outcome = "ValueError" /\ document.has_workflows
            /\ Len(document.workflows) = 1 /\ document.workflows[1].has_tasks
            /\ document.workflows[1].tasks = <<>>)
           => ~document.workflows[1].schedule.has_delay

C13_Witness ==
    /\ pc = "loaded"
    /\ Len(workflows) = 2
    /\ ScheduleOf(workflows[1]) = Schedule(FALSE, 0, TRUE, <<"4">>)
    /\ ScheduleOf(workflows[2]) = Schedule(TRUE, 2, TRUE, <<"4">>)
    /\ built[2].added_at = 1
    /\ workflows[1].run_at = 4
    /\ workflows[2].run_at = 3


\* ---------------------------------------------------------------- C14
\* The document holds one workflow of the one task spec
OnlyTask(spec) ==
    /\ document.has_workflows
    /\ Len(document.workflows) = 1
    /\ document.workflows[1].has_tasks
    /\ document.workflows[1].tasks = <<spec>>

LoadEnded == pc \in {"loaded", "call", "done"}

LoadSucceeded == pc \in {"loaded", "call"} \/ (pc = "done" /\ outcome = "returned")

\* C14: a hotkey task with keys: [] fails at construction with ValueError
\* and no other error; one with a non-empty keys sequence is built into a
\* Hotkey task holding exactly those keys in order.
C14_HotkeyFromConfiguration ==
    \A keys \in {<<>>, <<"ctrl", "c">>} :
        (LoadEnded /\ OnlyTask(TaskSpec(TRUE, "hotkey", {"keys"}, keys, 0, 0)))
            => IF keys = <<>>
               THEN pc = "done" /\ outcome = "ValueError"
               ELSE /\ LoadSucceeded
                    /\ built[1].tasks[1].type = "hotkey"
                    /\ built[1].tasks[1].keys = keys

\* ---------------------------------------------------------------- C15
\* The fields a task of the type needs, as the configuration names them
RequiredFields(type) ==
    IF type = "hotkey" THEN {"keys"} ELSE RequiredParams(type)

\* C15, building: for every task variant a spec with the variant's required
\* fields and delay_before = d > 0 is built into a task whose pre-delay is d.
C15_DelayBeforeIsBuilt ==
    \A spec \in TaskSpecs :
        (/\ LoadEnded
         /\ OnlyTask(spec)
         /\ spec.has_type
         /\ TypeLower(spec.type) \in TaskRegistry
         /\ spec.fields = RequiredFields(TypeLower(spec.type)) \cup {"delay_before"}
         /\ spec.type = "hotkey" => spec.keys # <<>>
         /\ spec.delay_before > 0)
            => /\ LoadSucceeded
               /\ built[1].tasks[1].delay_before = spec.delay_before

\* ---------------------------------------------------------------- C16
WellFormed(spec) ==
    /\ spec.has_type
    /\ TypeLower(spec.type) \in TaskRegistry
    /\ TypeLower(spec.type) # "hotkey"
    /\ spec.fields = RequiredFields(TypeLower(spec.type))

\* No type, a type that is none of the five, or a required field missing
Defective(spec) ==
    \/ ~spec.has_type
    \/ TypeLower(spec.type) \notin TaskRegistry
    \/ ~(RequiredFields(TypeLower(spec.type)) \subseteq spec.fields)

AllTaskSpecs ==
    UNION {Range(document.workflows[i].tasks) : i \in 1..Len(document.workflows)}

\* The documents the claim speaks of: nothing is wrong with them but what
\* the claim lists
Rejectable ==
    \/ ~document.has_workflows
    \/ document.workflows = <<>>
    \/ /\ \A i \in 1..Len(document.workflows) : document.workflows[i].has_tasks
       /\ \A spec \in AllTaskSpecs : WellFormed(spec) \/ Defective(spec)
       /\ \E spec \in AllTaskSpecs : Defective(spec)

\* C16: loading such a document fails, with the same error kind (ValueError)
\* in all the cases, no scheduler is produced and nothing runs.
C16_OneErrorKind ==
    (Rejectable /\ pc \notin {"main", "load"})
        => /\ pc = "done"
           /\ outcome = "ValueError"
           /\ workflows = <<>>
           /\ log = <<>>

\* ---------------------------------------------------------------- C17
Requested(e) == e.workflow \in Range(argv.workflows)

Unknown == Range(argv.workflows) \ {workflows[i].workflow : i \in 1..Len(workflows)}

\* C17: with --workflow names, an unknown name ends the program with
\* SystemExit whose message mentions every unknown name, the scheduler's list
\* stays as it was and scheduler.run() is not reached; otherwise the list
\* keeps exactly the requested entries in their original relative order, and
\* scheduler.run() is called on those.
C17_FilterByName ==
    /\ [][(pc = "loaded" /\ pc' # "loaded" /\ ~argv.list /\ argv.workflows # <<>>)
            => IF Unknown # {}
               THEN /\ outcome' = "SystemExit"
                    /\ Range(message') = Unknown
                    /\ workflows' = workflows
                    /\ pc' = "done"
               ELSE /\ Range(workflows') = {e \in Range(workflows) : Requested(e)}
                    /\ \A i, j \in 1..Len(workflows') :
                           i < j => workflows'[i].id < workflows'[j].id
                    /\ outcome' = "running"
                    /\ pc' = "call"]_vars
    /\ [](outcome = "SystemExit" => pc = "done" /\ log = <<>>)
    /\ []((pc = "call" /\ argv.workflows # <<>>)
            => \A i \in 1..Len(workflows) : Requested(workflows[i]))

C17_Witness ==
    /\ pc = "done"
    /\ outcome = "SystemExit"
    /\ argv.workflows = <<"Z", "A", "Y">>
    /\ message = <<"Y", "Z">>
    /\ Len(workflows) = 2


\* ---------------------------------------------------------------- C18
\* C18: run() never adds, removes or replaces an entry and never changes an
\* entry's run_at or workflow: the list after the sort at the start of run()
\* is a permutation of the list before the call, and from then on, through
\* the execution of the workflows and to the return or the raise, the list
\* stays exactly as it is.
C18_RunOnlyReorders ==
    /\ [][(pc = "idle" /\ pc' # "idle")
            => /\ Len(workflows') = Len(workflows)
               /\ Range(workflows') = Range(workflows)]_vars
    /\ [][pc # "idle" => workflows' = workflows]_vars
    /\ [](\A i, j \in 1..Len(workflows) :
              workflows[i] = workflows[j] => i = j)

C18_Witness ==
    /\ pc = "done"
    /\ outcome = "AutomationError"
    /\ Len(workflows) = 2
    /\ workflows[1].id = 2
    /\ workflows[1].run_at = workflows[2].run_at - 1
    /\ Positions("end") = {}


\* ---------------------------------------------------------------- C20
\* run() ended without a raise and with the backend constructed
EndedQuietly ==
    pc = "done" /\ api = "constructed" /\ Positions("raise") = {}

\* C20: a run the cancel hotkey has stopped (workflows left out, nothing
\* raised) returns normally; a later run() on the same scheduler starts with
\* an unset flag of its own, in it the flag is set only by a press during
\* that run, and without one every workflow is completed, whatever the
\* earlier run and its teardown left behind.
C20_CancellationScopedToOneRun ==
    /\ []((EndedQuietly /\ ~AllCompleted)
            => cancel.set /\ outcome = "returned" /\ exc = "none")
    /\ [][(pc = "idle" /\ pc' = "enter") => ~event']_vars
    /\ []((runs # <<>> /\ pc \notin {"idle", "done"} /\ event) => cancel.set)
    /\ []((runs # <<>> /\ EndedQuietly /\ ~cancel.set) => AllCompleted)

C20_Witness ==
    /\ Len(runs) = 1
    /\ runs[1].cancelled
    /\ runs[1].outcome = "returned"
    /\ runs[1].completed = 0
    /\ pc = "done"
    /\ ~cancel.set
    /\ outcome = "returned"
    /\ Len(workflows) = 2
    /\ AllCompleted

====
